---- MODULE Spec2Model ----
(***************************************************************************)
(* LoRa antenna controller / phaser: the command and reply protocol of the *)
(* two nodes.  Bytes are integers 0..255, frames are sequences of bytes.   *)
(* The phaser's globals keep the names they have in the phaser's main.cpp, *)
(* the controller's the names of the controller's main.cpp (prefixed       *)
(* ctrl_ where both nodes use the same name).                              *)
(***************************************************************************)
EXTENDS Integers, Sequences, FiniteSets, TLC

VARIABLES
    antenna_config,      \* phaser: ANTENNA_CONFIG the firmware was built with
    current_direction,   \* phaser: antenna direction in force
    target_direction,    \* phaser: staged direction
    relays,              \* phaser: the six relay outputs, LOW = 0, HIGH = 1
    bus_voltage_mv,      \* phaser: last measured bus voltage
    bus_current_ma,      \* phaser: last measured bus current
    command_buffer,      \* phaser: char command_buffer[MAX_COMMAND_LEN]
    command_length,      \* phaser: int command_length
    reply_buffer,        \* phaser: reply_buffer[0 .. reply_length-1]
    phaser_pc,           \* phaser: "loop" once setup() has returned, else the while (1) that setup() never leaves
    ctrl_current_direction, \* controller: current_direction
    last_button_pressed, \* controller
    last_rev_power,      \* controller: the characters of last_rev_power
    last_reply_buffer,   \* controller: last_reply_buffer[0 .. last_reply_length-1]
    display_msg,         \* controller: status put up by display_message
    ctrl_pc,             \* controller: position inside send_and_process_command
    current_command,     \* controller: Command current_command (data[0..length-1])
    serial_token,        \* controller: the token the handler running took from the serial line, <<>> if a button or PTT started it
    air_cmd,             \* radio: packet delivered to the phaser's receiver, or NoPacket
    air_reply,           \* radio: reply delivered to the controller's receiver, or NoPacket
    ev                   \* history: what the last step did, and the phaser state before it

vars == <<antenna_config,
          current_direction, target_direction, relays, bus_voltage_mv,
          bus_current_ma, command_buffer, command_length, reply_buffer,
          phaser_pc,
          ctrl_current_direction, last_button_pressed, last_rev_power,
          last_reply_buffer, display_msg, ctrl_pc, current_command,
          serial_token, air_cmd, air_reply, ev>>

phaser_vars == <<antenna_config,
                 current_direction, target_direction, relays, bus_voltage_mv,
                 bus_current_ma, command_buffer, command_length, reply_buffer,
                 phaser_pc>>

ctrl_vars == <<ctrl_current_direction, last_button_pressed, last_rev_power,
               last_reply_buffer, display_msg, ctrl_pc, current_command,
               serial_token>>

----------------------------------------------------------------------------
(* Protocol constants (phaser/include/protocol.h, phaser/include/config.h). *)

CMD_PREFIX_A == 65
CMD_PREFIX_P == 80
CMD_PREFIX_1 == 49
CMD_TERMINATOR_CR == 13
CMD_TERMINATOR_SEMI == 59
CMD_TYPE_POWER == 86
CMD_TYPE_INFO_M == 77
CMD_TYPE_INFO_I == 73
REPLY_PREFIX_POS == 59
REPLY_PREFIX_PWR == 86
AUTH_LEN == 2
MAX_COMMAND_LEN == 7
NUM_DIRECTIONS == 8
MY_ADDRESS == 212
CTRL_ADDRESS == 211
ANTENNA_REMOTEQTH == 1
ANTENNA_COMTEK == 2
DIR_N == 0
DIR_NE == 1
DIR_E == 2
DIR_SE == 3
DIR_S == 4
DIR_SW == 5
DIR_W == 6
DIR_NW == 7

\* "N2RD-ANTENNA-KEY"
AUTH_KEY == <<78, 50, 82, 68, 45, 65, 78, 84, 69, 78, 78, 65, 45, 75, 69, 89>>

\* static const char* DIRECTION_ANGLES[]: "000", "045", ... (index d+1 here)
DIRECTION_ANGLES ==
    << <<48, 48, 48>>, <<48, 52, 53>>, <<48, 57, 48>>, <<49, 51, 53>>,
       <<49, 56, 48>>, <<50, 50, 53>>, <<50, 55, 48>>, <<51, 49, 53>> >>

\* RELAY_POSITIONS[8][6] of the default build (ANTENNA_CONFIG == ANTENNA_REMOTEQTH):
\* {R1, R2, R3, R4, R5/6, R7/8}, LOW = 0, HIGH = 1 (index d+1 here)
RELAY_POSITIONS ==
    << <<0, 0, 0, 0, 0, 0>>,
       <<0, 0, 1, 1, 0, 1>>,
       <<1, 1, 1, 1, 1, 1>>,
       <<0, 1, 1, 0, 0, 1>>,
       <<0, 0, 0, 0, 1, 1>>,
       <<1, 1, 0, 0, 0, 1>>,
       <<1, 1, 1, 1, 0, 0>>,
       <<1, 0, 0, 1, 0, 0>> >>

\* RELAY_POSITIONS[8][6] of the build with ANTENNA_CONFIG == ANTENNA_COMTEK
RELAY_POSITIONS_COMTEK ==
    << <<0, 0, 0, 0, 0, 0>>,
       <<0, 0, 0, 0, 0, 0>>,
       <<1, 0, 0, 0, 0, 0>>,
       <<1, 0, 0, 0, 0, 0>>,
       <<0, 1, 0, 0, 0, 0>>,
       <<0, 1, 0, 0, 0, 0>>,
       <<1, 1, 0, 0, 0, 0>>,
       <<1, 1, 0, 0, 0, 0>> >>

\* the #if ANTENNA_CONFIG == ... #elif ... selection of the relay table
RelayTable(config) ==
    IF config = ANTENNA_REMOTEQTH THEN RELAY_POSITIONS ELSE RELAY_POSITIONS_COMTEK

Directions == 0 .. (NUM_DIRECTIONS - 1)

----------------------------------------------------------------------------
(* Bounds and the inputs drawn from them.                                   *)

\* Sensor levels 0..SensorLevels: level 0 is an all-zero reading.
SensorLevels == 1

\* One reading of the sensor collaborators: INA3221 channels, last RSSI of the
\* radio, averaged reverse-power ADC count (0..1023).
Sample(k) ==
    [bus_mv |-> k * 6900, bus_ma |-> k * 250, mcu_mv |-> k * 1650,
     rssi |-> 0 - (k * 47), adc |-> k * 341]

Samples == {Sample(k) : k \in 0 .. SensorLevels}

----------------------------------------------------------------------------
(* C library formatting used by the reply builders.                         *)

Min(a, b) == IF a < b THEN a ELSE b

Abs(x) == IF x < 0 THEN 0 - x ELSE x

RECURSIVE DecDigits(_)
\* the decimal digits of n >= 0 as ASCII, no padding
DecDigits(n) ==
    IF n < 10 THEN <<48 + n>> ELSE Append(DecDigits(n \div 10), 48 + (n % 10))

RECURSIVE Repeat(_, _)
Repeat(b, n) == IF n <= 0 THEN <<>> ELSE <<b>> \o Repeat(b, n - 1)

\* sprintf("%0<width>d", x) and, with plus, sprintf("%+0<width>d", x): the sign
\* counts in the width, the width is a minimum.
SprintfD(x, width, plus) ==
    LET sign == IF x < 0 THEN <<45>> ELSE IF plus THEN <<43>> ELSE <<>>
        digs == DecDigits(Abs(x))
    IN  sign \o Repeat(48, width - Len(sign) - Len(digs)) \o digs

\* rev_power in tenths of a watt: (adc * 0.5474)^2 / 100, rounded to one decimal.
\* 0.5474^2 / 100 * 10 = 0.029964676; the product is split to stay in 32 bits.
PowerTenths(adc) ==
    LET q == adc * adc
        hi == (q \div 1000) * 29965
        lo == ((q % 1000) * 29965) \div 1000
    IN  (hi + lo + 500) \div 1000

\* dtostrf without the padding to the minimum width
Dtostrf61_no_padding(tenths) ==
    DecDigits(tenths \div 10) \o <<46, 48 + (tenths % 10)>>

\* dtostrf(v, 6, 1, out) for v = tenths / 10 >= 0: right-justified in 6 columns.
Dtostrf61(tenths) ==
    LET body == DecDigits(tenths \div 10) \o <<46, 48 + (tenths % 10)>>
    IN  Repeat(32, 6 - Len(body)) \o body

----------------------------------------------------------------------------
(* The phaser.  Its functions act on the globals; here each takes the record *)
(* S of the globals and returns the record after the call.  smp is what the  *)
(* sensor collaborators return while the call runs.  S.built records which   *)
(* reply builder, if any, ran during the current process_command.            *)

NoPacket == [from |-> 0, data |-> <<>>, none |-> TRUE]

Packet(from, data) == [from |-> from, data |-> data, none |-> FALSE]

PhaserState ==
    [antenna_config |-> antenna_config,
     current_direction |-> current_direction,
     target_direction |-> target_direction,
     relays |-> relays,
     bus_voltage_mv |-> bus_voltage_mv,
     bus_current_ma |-> bus_current_ma,
     command_buffer |-> command_buffer,
     command_length |-> command_length,
     reply_buffer |-> reply_buffer,
     built |-> "none"]

\* command_buffer[i], i counted from 0 as in the source
Cmd(S, i) == S.command_buffer[i + 1]

\* set_antenna_direction that drives the relays and does not record the
\* direction
set_antenna_direction_relays_only(S, direction) ==
    IF direction < 0 \/ direction >= NUM_DIRECTIONS
    THEN S
    ELSE [S EXCEPT !.relays = RelayTable(S.antenna_config)[direction + 1]]

\* set_antenna_direction that records the direction and leaves the relays alone
set_antenna_direction_no_relays(S, direction) ==
    IF direction < 0 \/ direction >= NUM_DIRECTIONS
    THEN S
    ELSE [S EXCEPT !.current_direction = direction]

\* void set_antenna_direction(int direction)
set_antenna_direction(S, direction) ==
    IF direction < 0 \/ direction >= NUM_DIRECTIONS
    THEN S
    ELSE [S EXCEPT !.relays = RelayTable(S.antenna_config)[direction + 1],
                   !.current_direction = direction]

\* void measure_sensors(void)
measure_sensors(S, smp) ==
    [S EXCEPT !.bus_voltage_mv = smp.bus_mv, !.bus_current_ma = smp.bus_ma]

\* void build_position_reply(int direction)
build_position_reply(S, direction, smp) ==
    [S EXCEPT !.reply_buffer =
                  <<REPLY_PREFIX_POS>> \o DIRECTION_ANGLES[direction + 1]
                  \o <<114>> \o SprintfD(smp.rssi, 4, TRUE)
                  \o <<118>> \o SprintfD(S.bus_voltage_mv, 5, FALSE)
                  \o <<105>> \o SprintfD(S.bus_current_ma, 3, FALSE)
                  \o <<98>> \o SprintfD(smp.mcu_mv, 4, FALSE),
              !.built = "position"]

\* void build_power_reply(void)
build_power_reply(S, smp) ==
    [S EXCEPT !.reply_buffer =
                  <<REPLY_PREFIX_PWR>> \o Dtostrf61(PowerTenths(smp.adc)),
              !.built = "power"]

\* a lookup whose default is N instead of the current direction
parse_direction_from_command_default_north(S) ==
    IF S.command_length < 7
    THEN DIR_N
    ELSE LET digit2 == Cmd(S, 4) - 48
         IN  CASE digit2 = 0 -> DIR_N
               [] digit2 = 4 -> DIR_NE
               [] digit2 = 9 -> DIR_E
               [] digit2 = 3 -> DIR_SE
               [] digit2 = 8 -> DIR_S
               [] digit2 = 2 -> DIR_SW
               [] digit2 = 7 -> DIR_W
               [] digit2 = 1 -> DIR_NW
               [] digit2 = 6 -> DIR_N
               [] OTHER -> DIR_N

\* int parse_direction_from_command(void)
parse_direction_from_command(S) ==
    IF S.command_length < 7
    THEN S.current_direction
    ELSE LET digit2 == Cmd(S, 4) - 48
         IN  CASE digit2 = 0 -> DIR_N
               [] digit2 = 4 -> DIR_NE
               [] digit2 = 9 -> DIR_E
               [] digit2 = 3 -> DIR_SE
               [] digit2 = 8 -> DIR_S
               [] digit2 = 2 -> DIR_SW
               [] digit2 = 7 -> DIR_W
               [] digit2 = 1 -> DIR_NW
               [] digit2 = 6 -> DIR_N
               [] OTHER -> S.current_direction

\* handle_set_direction that stages on ';' only and executes on any other
\* last byte
handle_set_direction_stage_on_semicolon(S, direction, smp) ==
    LET terminator == Cmd(S, S.command_length - 1)
        S1 == IF terminator # CMD_TERMINATOR_SEMI
              THEN set_antenna_direction(S, direction)
              ELSE [S EXCEPT !.target_direction = direction]
        S2 == measure_sensors(S1, smp)
    IN  build_position_reply(S2, S2.current_direction, smp)

\* handle_set_direction that executes whatever the terminator is
handle_set_direction_always_execute(S, direction, smp) ==
    LET S1 == set_antenna_direction(S, direction)
        S2 == measure_sensors(S1, smp)
    IN  build_position_reply(S2, S2.current_direction, smp)

\* void handle_set_direction(int direction)
handle_set_direction(S, direction, smp) ==
    LET terminator == Cmd(S, S.command_length - 1)
        S1 == IF terminator = CMD_TERMINATOR_CR
              THEN set_antenna_direction(S, direction)
              ELSE [S EXCEPT !.target_direction = direction]
        S2 == measure_sensors(S1, smp)
    IN  build_position_reply(S2, S2.current_direction, smp)

\* handle_position_query that also applies the staged target
handle_position_query_applies_target(S, smp) ==
    LET S1 == measure_sensors(set_antenna_direction(S, S.target_direction), smp)
    IN  build_position_reply(S1, S1.current_direction, smp)

\* void handle_position_query(void)
handle_position_query(S, smp) ==
    LET S1 == measure_sensors(S, smp)
    IN  build_position_reply(S1, S1.current_direction, smp)

\* handle_power_query that answers with the position reply
handle_power_query_position(S, smp) ==
    LET S1 == measure_sensors(S, smp)
    IN  build_position_reply(S1, S1.current_direction, smp)

\* void handle_power_query(void)
handle_power_query(S, smp) ==
    build_power_reply(measure_sensors(S, smp), smp)

\* a Stop that releases every relay
handle_stop_relays_off(S, smp) ==
    LET S1 == measure_sensors([S EXCEPT !.relays = <<0, 0, 0, 0, 0, 0>>], smp)
    IN  build_position_reply(S1, S1.current_direction, smp)

\* the ';' case of process_command's single-character switch
handle_stop(S, smp) ==
    LET S1 == measure_sensors(S, smp)
    IN  build_position_reply(S1, S1.current_direction, smp)

\* an 'M' branch that reports without moving
handle_move_to_target_no_move(S, smp) ==
    LET S1 == measure_sensors(S, smp)
    IN  build_position_reply(S1, S1.current_direction, smp)

\* the CMD_TYPE_INFO_M branch of process_command's 3-byte case
handle_move_to_target(S, smp) ==
    LET S1 == set_antenna_direction(S, S.target_direction)
        S2 == measure_sensors(S1, smp)
    IN  build_position_reply(S2, S2.current_direction, smp)

\* void process_command(void)
process_command(S, smp) ==
    IF S.command_length = 0 THEN S
    ELSE IF S.command_length = 1 THEN
        CASE Cmd(S, 0) = CMD_TYPE_POWER -> handle_power_query(S, smp)
          [] Cmd(S, 0) = 59 -> handle_stop(S, smp)
          [] OTHER -> S
    ELSE IF S.command_length = 3 THEN
        IF Cmd(S, 1) = CMD_TYPE_INFO_I THEN handle_position_query(S, smp)
        ELSE IF Cmd(S, 1) = CMD_TYPE_INFO_M THEN handle_move_to_target(S, smp)
        ELSE S
    ELSE IF S.command_length = 7 THEN
        IF /\ Cmd(S, 0) = CMD_PREFIX_A
           /\ Cmd(S, 1) = CMD_PREFIX_P
           /\ Cmd(S, 2) = CMD_PREFIX_1
        THEN handle_set_direction(S, parse_direction_from_command(S), smp)
        ELSE S
    ELSE S

\* the phaser's globals after a call that leaves them as in S
SetPhaser(S) ==
    /\ antenna_config' = S.antenna_config
    /\ current_direction' = S.current_direction
    /\ target_direction' = S.target_direction
    /\ relays' = S.relays
    /\ bus_voltage_mv' = S.bus_voltage_mv
    /\ bus_current_ma' = S.bus_current_ma
    /\ command_buffer' = S.command_buffer
    /\ command_length' = S.command_length
    /\ reply_buffer' = S.reply_buffer

\* history record of one step
Event(op, from, frame, S, sent) ==
    [op |-> op, from |-> from, frame |-> frame,
     pre_current |-> current_direction, pre_target |-> target_direction,
     pre_relays |-> relays, pre_reply |-> reply_buffer,
     built |-> S.built, sent |-> sent]

----------------------------------------------------------------------------
(* Authentication tag (protocol.h of both nodes), 16-bit unsigned.          *)

RECURSIVE XorBits(_, _, _)
\* bitwise exclusive or of the low n bits of a and b
XorBits(a, b, n) ==
    IF n = 0 THEN 0
    ELSE ((a + b) % 2) + 2 * XorBits(a \div 2, b \div 2, n - 1)

\* a left shift by 5 that loses the bits shifted out
ShiftLeft5(hash) == (hash * 32) % 65536

\* ((hash << 5) | (hash >> 11)) kept to 16 bits
RotateLeft5(hash) == ((hash * 32) % 65536) + (hash \div 2048)

RECURSIVE AuthFold(_, _, _)
\* the loop of compute_auth from index i (0-based) with running value hash
AuthFold(data, i, hash) ==
    IF i >= Len(data) THEN hash
    ELSE AuthFold(data, i + 1,
                  (XorBits(RotateLeft5(hash), AUTH_KEY[(i % Len(AUTH_KEY)) + 1], 16)
                   + data[i + 1]) % 65536)

\* compute_auth with start value 0
compute_auth_zero_start(data) == AuthFold(data, 0, 0)

\* static inline uint16_t compute_auth(const uint8_t* data, uint8_t len), the
\* phaser's copy
compute_auth(data) == AuthFold(data, 0, 45887)

----------------------------------------------------------------------------
(* The controller.                                                          *)

\* const char* angles[] of build_direction_command: ANGLE_N .. ANGLE_NW
angles ==
    << <<48, 48, 48>>, <<48, 52, 53>>, <<48, 57, 48>>, <<49, 51, 53>>,
       <<49, 56, 48>>, <<50, 50, 53>>, <<50, 55, 48>>, <<51, 49, 53>> >>

CMD_PTT == 86
CMD_TERMINATOR == 13
CTRL_MY_ADDRESS == 211

\* build_direction_command that ends the frame with ';'
build_direction_command_semicolon(direction) ==
    <<65, 80, 49>> \o angles[direction + 1] \o <<59>>

\* void build_direction_command(int direction, Command& cmd): cmd.data[0..6]
build_direction_command(direction) ==
    <<65, 80, 49>> \o angles[direction + 1] \o <<CMD_TERMINATOR>>

\* void build_ptt_command(Command& cmd)
build_ptt_command == <<CMD_PTT>>

\* DIRECTION_NAMES of the controller's config.h: "N", "NE", ... "NW"
CTRL_DIRECTION_NAMES ==
    << <<78>>, <<78, 69>>, <<69>>, <<83, 69>>, <<83>>, <<83, 87>>, <<87>>,
       <<78, 87>> >>

\* sizeof(serial_buffer) of handle_serial_input
SERIAL_BUFFER_SIZE == 10

\* AUTH_KEY of the controller's protocol.h: "N2RD-ANTENNA-KEY"
CTRL_AUTH_KEY == <<78, 50, 82, 68, 45, 65, 78, 84, 69, 78, 78, 65, 45, 75, 69, 89>>

RECURSIVE CtrlAuthFold(_, _, _)
\* the loop of the controller's compute_auth from index i with running value hash
CtrlAuthFold(data, i, hash) ==
    IF i >= Len(data) THEN hash
    ELSE LET mixed == XorBits(RotateLeft5(hash),
                              CTRL_AUTH_KEY[(i % Len(CTRL_AUTH_KEY)) + 1], 16)
         IN  CtrlAuthFold(data, i + 1, (mixed + data[i + 1]) % 65536)

\* static inline uint16_t compute_auth(const uint8_t* data, uint8_t len), the
\* controller's copy
ctrl_compute_auth(data) == CtrlAuthFold(data, 0, 45887)

\* auth_packet with the tag's low byte before its high byte
auth_packet_low_byte_first(cmd) ==
    LET auth == ctrl_compute_auth(cmd)
    IN  cmd \o <<auth % 256, (auth \div 256) % 256>>

\* auth_packet of send_and_process_command: the command, then the tag's high
\* byte, then its low byte
auth_packet(cmd) ==
    LET auth == ctrl_compute_auth(cmd)
    IN  cmd \o <<(auth \div 256) % 256, auth % 256>>

CtrlState ==
    [ctrl_current_direction |-> ctrl_current_direction,
     last_rev_power |-> last_rev_power,
     last_reply_buffer |-> last_reply_buffer,
     display_msg |-> display_msg]

\* void display_message(const char* msg): what the screen shows afterwards
display_message(msg) == [screen |-> msg]

\* buf[i] .. buf[j], i and j counted from 0 as in the source
Bytes(buf, i, j) == [k \in 1 .. (j - i + 1) |-> buf[i + k]]

\* void display_telemetry(const uint8_t* buf, uint8_t len): the fields drawn
display_telemetry(C, buf) ==
    [C EXCEPT !.display_msg =
        [screen |-> "telemetry",
         rev |-> C.last_rev_power,
         rssi |-> IF Len(buf) >= 9 THEN Bytes(buf, 6, 8) ELSE <<>>,
         bus_v |-> IF Len(buf) >= 15
                   THEN Bytes(buf, 10, 11) \o <<46>> \o Bytes(buf, 12, 14)
                   ELSE <<>>,
         bus_ma |-> IF Len(buf) >= 19 THEN Bytes(buf, 16, 18) ELSE <<>>,
         mcu_v |-> IF Len(buf) >= 24
                   THEN Bytes(buf, 20, 20) \o <<46>> \o Bytes(buf, 21, 23)
                   ELSE <<>>,
         dir |-> C.ctrl_current_direction]]

\* process_reply that stores whatever follows 'V', however short the reply
process_reply_unguarded_power(C, buf) ==
    IF Len(buf) = 0 THEN C
    ELSE IF buf[1] = 59 THEN
        LET direction == IF Len(buf) >= 2 THEN buf[2] - 48 ELSE 0 - 1
            C1 == IF Len(buf) >= 2 /\ direction >= 0 /\ direction < NUM_DIRECTIONS
                  THEN [C EXCEPT !.ctrl_current_direction = direction]
                  ELSE C
        IN  display_telemetry([C1 EXCEPT !.last_reply_buffer = buf], buf)
    ELSE IF buf[1] = 86 THEN
        display_telemetry([C EXCEPT !.last_rev_power = SubSeq(buf, 2, Min(7, Len(buf)))],
                          buf)
    ELSE C

\* void process_reply(const uint8_t* buf, uint8_t len)
process_reply(C, buf) ==
    IF Len(buf) = 0 THEN C
    ELSE IF buf[1] = 59 THEN
        LET direction == IF Len(buf) >= 2 THEN buf[2] - 48 ELSE 0 - 1
            C1 == IF Len(buf) >= 2 /\ direction >= 0 /\ direction < NUM_DIRECTIONS
                  THEN [C EXCEPT !.ctrl_current_direction = direction]
                  ELSE C
        IN  display_telemetry([C1 EXCEPT !.last_reply_buffer = buf], buf)
    ELSE IF buf[1] = 86 THEN
        LET C1 == IF Len(buf) >= 7
                  THEN [C EXCEPT !.last_rev_power = SubSeq(buf, 2, 7)]
                  ELSE C
        IN  display_telemetry(C1, buf)
    ELSE C

SetCtrl(C) ==
    /\ ctrl_current_direction' = C.ctrl_current_direction
    /\ last_rev_power' = C.last_rev_power
    /\ last_reply_buffer' = C.last_reply_buffer
    /\ display_msg' = C.display_msg

Idle == [at |-> "idle", button |-> 0 - 1]

\* a step of the controller, which leaves the phaser alone
CtrlEvent(op, frame) ==
    [op |-> op, from |-> CTRL_MY_ADDRESS, frame |-> frame,
     pre_current |-> current_direction, pre_target |-> target_direction,
     pre_relays |-> relays, pre_reply |-> reply_buffer,
     built |-> "none", sent |-> NoPacket,
     pre_ctrl_direction |-> ctrl_current_direction,
     pre_rev_power |-> last_rev_power,
     pre_last_reply |-> last_reply_buffer,
     pre_pc |-> ctrl_pc.at]

----------------------------------------------------------------------------
(* Input frames.                                                            *)

\* azimuth fields tried in AP1 frames: the eight canonical values, 010, 050,
\* 360, and two with a byte that is no digit ("0x5", "04:")
AzimuthInputs ==
    {DIRECTION_ANGLES[d + 1] : d \in Directions}
    \cup {<<48, 49, 48>>, <<48, 53, 48>>, <<51, 54, 48>>,
          <<48, 120, 53>>, <<48, 52, 58>>}

\* last byte of a 7-byte frame: carriage return, ';'
TerminatorInputs == {CMD_TERMINATOR_CR, CMD_TERMINATOR_SEMI}

\* frames handed to process_command: every length 0..7, known and unknown
\* selectors, good and bad prefixes, one AP1 frame ending in 'Z'
UnitFrames ==
    {<<65, 80, 49>> \o a \o <<t>> : a \in AzimuthInputs, t \in TerminatorInputs}
    \cup {<<65, 80, 49, 49, 51, 53, 90>>}
    \cup {p \o <<48, 52, 53, 13>> : p \in {<<65, 80, 50>>, <<88, 80, 49>>, <<65, 81, 49>>}}
    \cup {<<a, s, 49>> : a \in {65, 88}, s \in {73, 77, 80}}
    \cup {<<65, 77, 59>>}
    \cup {<<86>>, <<59>>, <<88>>, <<65>>}
    \cup {<<>>, <<65, 80>>, <<65, 80, 49, 48>>, <<65, 80, 49, 48, 52>>,
          <<65, 80, 49, 48, 52, 53>>}

\* packets another transmitter can put on the air for the phaser: commands
\* without a tag, with a good tag and with a bad one
InjectFrames ==
    {<<65, 73, 49>>, <<65, 77, 49>>, <<86>>, <<59>>, <<88>>, <<65, 80>>,
     <<65, 80, 49, 48, 52, 53, 13>>,
     auth_packet(<<65, 80, 49, 50, 50, 53, 13>>),
     <<86, 0, 0>>}

\* source addresses of injected packets: the controller's and a foreign one
InjectSources == {CTRL_ADDRESS, 7}

\* the SetDirection frame "AP1" + three digits of azimuth a + carriage return
AzimuthFrame(a) == <<65, 80, 49>> \o SprintfD(a, 3, FALSE) \o <<CMD_TERMINATOR_CR>>

\* every azimuth 0..359 as a SetDirection frame
AzimuthFrames == {AzimuthFrame(a) : a \in 0 .. 359}

\* sensor readings at and beyond the ends of the Position reply's fields: bus
\* current up to 999 and from 1000 mA, down to -99 and from -100 mA; bus voltage
\* up to 99999 and 100000 mV; MCU voltage up to 9999 and 10000 mV; RSSI down to
\* -999 (each formatted string still fits the local array sprintf writes to)
TelemetryInputs ==
    [bus_mv : {0, 13800, 99999, 100000},
     bus_ma : {0, 250, 999, 1000, 0 - 99, 0 - 100},
     mcu_mv : {3300, 9999, 10000},
     rssi : {0, 0 - 47, 0 - 120, 0 - 999},
     adc : {0}]

\* tokens typed on the serial line: "foo", "s", "10", "45x" and the ten
\* characters "0000000045"
SerialTokens ==
    {<<102, 111, 111>>, <<115>>, <<49, 48>>, <<52, 53, 120>>,
     <<48, 48, 48, 48, 48, 48, 48, 48, 52, 53>>}

\* buttons pressed on the panel
PanelButtons == {DIR_N, DIR_S}

\* every averaged reading of the 10-bit reverse-power ADC
AdcInputs == {[Sample(0) EXCEPT !.adc = a] : a \in 0 .. 1023}

\* payloads handed to compute_auth: every command the controller builds, every
\* prefix of one of them (lengths 1..7), all-zero and all-one bytes
AuthPayloads ==
    {build_direction_command(d) : d \in Directions}
    \cup {build_ptt_command, <<65, 73, 49>>, <<65, 77, 49>>}
    \cup {SubSeq(build_direction_command(DIR_NW), 1, n) : n \in 1 .. MAX_COMMAND_LEN}
    \cup {<<0>>, <<255>>, Repeat(0, MAX_COMMAND_LEN), Repeat(255, MAX_COMMAND_LEN)}

\* direction buttons pressed where the far end is any responder
ButtonInputs == {DIR_NE, DIR_S, DIR_NW}

\* the Position reply the phaser builds while its current is direction d
PositionReplyOf(d) ==
    LET S == measure_sensors([PhaserState EXCEPT !.current_direction = d], Sample(1))
    IN  build_position_reply(S, S.current_direction, Sample(1)).reply_buffer

\* the Power reply the phaser builds
PowerReply == build_power_reply(PhaserState, Sample(1)).reply_buffer

\* frames recvfromAck can hand to the controller: the phaser's Position reply
\* for every direction, its Power reply, both cut short, a Position frame
\* whose second byte is above '7' (";845") or below '0' (";/"), a zero-length
\* datagram and a frame of neither kind
ReplyInputs ==
    {PositionReplyOf(d) : d \in Directions}
    \cup {PowerReply, SubSeq(PowerReply, 1, 6), SubSeq(PowerReply, 1, 1)}
    \cup {SubSeq(PositionReplyOf(DIR_NW), 1, 1), SubSeq(PositionReplyOf(DIR_NW), 1, 2)}
    \cup {<<59, 56, 52, 53>>, <<59, 47>>}
    \cup {<<>>, <<88, 49>>}

----------------------------------------------------------------------------
(* Initial state: both nodes after setup().                                 *)

\* the phaser's globals as their initialisers leave them, the relay pins just
\* made outputs
PhaserGlobals(config) ==
    [antenna_config |-> config,
     current_direction |-> DIR_N,
     target_direction |-> DIR_N,
     relays |-> <<0, 0, 0, 0, 0, 0>>,
     bus_voltage_mv |-> 0,
     bus_current_ma |-> 0,
     command_buffer |-> Repeat(0, MAX_COMMAND_LEN),
     command_length |-> 0,
     reply_buffer |-> <<>>,
     built |-> "none"]

\* a start-up that drives the relays to E and stages E
init_all_hardware_east(config, smp) ==
    measure_sensors(
        [set_antenna_direction(PhaserGlobals(config), DIR_E)
            EXCEPT !.target_direction = DIR_E], smp)

\* void init_all_hardware(void) of the phaser, every device answering
init_all_hardware(config, smp) ==
    measure_sensors(set_antenna_direction(PhaserGlobals(config), DIR_N), smp)

\* the phaser's globals are those of S
PhaserIs(S) ==
    /\ antenna_config = S.antenna_config
    /\ current_direction = S.current_direction
    /\ target_direction = S.target_direction
    /\ relays = S.relays
    /\ bus_voltage_mv = S.bus_voltage_mv
    /\ bus_current_ma = S.bus_current_ma
    /\ command_buffer = S.command_buffer
    /\ command_length = S.command_length
    /\ reply_buffer = S.reply_buffer

\* where init_all_hardware ends, given what rf95_manager.init(),
\* rf95.setFrequency() and ina3221.begin() return: in one of its while (1)
\* loops, or back in setup() and so in loop()
StartupPc(radio_ok, frequency_ok, ina3221_ok) ==
    IF ~radio_ok THEN "halt_radio"
    ELSE IF ~frequency_ok THEN "halt_frequency"
    ELSE IF ~ina3221_ok THEN "halt_ina3221"
    ELSE "loop"

\* the phaser after setup() of a build with ANTENNA_CONFIG == config, or where
\* setup() stopped, for the given answers of the devices
PhaserStartup(config, radio_ok, frequency_ok, ina3221_ok) ==
    /\ phaser_pc = StartupPc(radio_ok, frequency_ok, ina3221_ok)
    /\ IF phaser_pc = "loop"
       THEN \E smp \in Samples : PhaserIs(init_all_hardware(config, smp))
       ELSE PhaserIs(set_antenna_direction(PhaserGlobals(config), DIR_N))

\* both nodes after setup(), the phaser built with ANTENNA_CONFIG == config,
\* for the given answers of the phaser's devices
InitDevices(config, radio_ok, frequency_ok, ina3221_ok) ==
    /\ PhaserStartup(config, radio_ok, frequency_ok, ina3221_ok)
    /\ ctrl_current_direction = DIR_N
    /\ last_button_pressed = DIR_N
    /\ last_rev_power = <<45, 45>>
    /\ last_reply_buffer = <<>>
    /\ display_msg = display_message("READY!")
    /\ ctrl_pc = Idle
    /\ current_command = <<>>
    /\ serial_token = <<>>
    /\ air_cmd = NoPacket
    /\ air_reply = NoPacket
    /\ ev = [op |-> "init", from |-> 0, frame |-> <<>>,
             pre_current |-> DIR_N, pre_target |-> DIR_N,
             pre_relays |-> RelayTable(config)[DIR_N + 1], pre_reply |-> <<>>,
             built |-> "none", sent |-> NoPacket]

\* both nodes after setup(), every device of the phaser answering
InitBuild(config) == InitDevices(config, TRUE, TRUE, TRUE)

\* the default build, each of the phaser's three devices answering or not
InitStartup ==
    \E radio_ok, frequency_ok, ina3221_ok \in BOOLEAN :
        InitDevices(ANTENNA_REMOTEQTH, radio_ok, frequency_ok, ina3221_ok)

\* the default build: ANTENNA_CONFIG is ANTENNA_REMOTEQTH unless overridden
Init == InitBuild(ANTENNA_REMOTEQTH)

\* the build of the adafruit_feather_m0_comtek environment
InitComtek == InitBuild(ANTENNA_COMTEK)

----------------------------------------------------------------------------
(* Phaser actions.                                                          *)

\* process_command() run on a command buffer holding a frame f of frames,
\* the sensors reading one of samples meanwhile
ProcessCommandOf(frames, samples) ==
    \E f \in frames, smp \in samples :
        LET S0 == [PhaserState EXCEPT
                       !.command_buffer = f \o Repeat(0, MAX_COMMAND_LEN - Len(f)),
                       !.command_length = Len(f)]
            S1 == process_command(S0, smp)
        IN  /\ phaser_pc = "loop"
            /\ SetPhaser(S1)
            /\ ev' = Event("process_command", CTRL_ADDRESS, f, S1, NoPacket)
            /\ UNCHANGED <<phaser_pc, ctrl_vars, air_cmd, air_reply>>

\* process_command() on every frame of UnitFrames
ProcessCommand == ProcessCommandOf(UnitFrames, Samples)

\* the bytes recvfromAck leaves in command_buffer: at most sizeof(command_buffer)
\* bytes of the message, the rest of the buffer as it was
ReceiveInto(buf, data) ==
    [i \in 1 .. MAX_COMMAND_LEN |->
        IF i <= Min(MAX_COMMAND_LEN, Len(data)) THEN data[i] ELSE buf[i]]

\* a loop() that takes the received length as it is
ClampLength_unclamped(len) == len

\* command_length after the clamp of loop()
ClampLength(len) ==
    IF len > MAX_COMMAND_LEN - 1 THEN MAX_COMMAND_LEN - 1 ELSE len

\* a loop() that processes and answers packets of every sender
LoopOn_unfiltered(pkt) ==
    LET len == Min(MAX_COMMAND_LEN, Len(pkt.data))
        buf == ReceiveInto(command_buffer, pkt.data)
    IN  \E smp \in Samples :
            LET cl == ClampLength(len)
                S0 == [PhaserState EXCEPT
                           !.command_buffer = [buf EXCEPT ![cl + 1] = 0],
                           !.command_length = cl]
                S1 == process_command(S0, smp)
                tx == Packet(MY_ADDRESS, S1.reply_buffer)
            IN  /\ SetPhaser(S1)
                /\ \/ air_reply' = tx
                   \/ air_reply' = NoPacket
                /\ ev' = Event("loop", pkt.from, pkt.data, S1, tx)

\* void loop() of the phaser once recvfromAck has returned message pkt
LoopOn(pkt) ==
    LET len == Min(MAX_COMMAND_LEN, Len(pkt.data))
        buf == ReceiveInto(command_buffer, pkt.data)
    IN  IF pkt.from # CTRL_ADDRESS
        THEN /\ command_buffer' = buf
             /\ UNCHANGED <<antenna_config,
                            current_direction, target_direction, relays,
                            bus_voltage_mv, bus_current_ma, command_length,
                            reply_buffer, air_reply>>
             /\ ev' = Event("loop", pkt.from, pkt.data, PhaserState, NoPacket)
        ELSE \E smp \in Samples :
                 LET cl == ClampLength(len)
                     S0 == [PhaserState EXCEPT
                                !.command_buffer = [buf EXCEPT ![cl + 1] = 0],
                                !.command_length = cl]
                     S1 == process_command(S0, smp)
                     tx == Packet(MY_ADDRESS, S1.reply_buffer)
                 IN  /\ SetPhaser(S1)
                     /\ \/ air_reply' = tx
                        \/ air_reply' = NoPacket
                     /\ ev' = Event("loop", pkt.from, pkt.data, S1, tx)

\* the phaser's loop() takes the controller's packet off the air
loop ==
    /\ phaser_pc = "loop"
    /\ ~air_cmd.none
    /\ air_cmd' = NoPacket
    /\ UNCHANGED <<phaser_pc, ctrl_vars>>
    /\ LoopOn(air_cmd)

\* the phaser's loop() takes a packet of any transmitter off the air
Receive ==
    /\ phaser_pc = "loop"
    /\ \E f \in InjectFrames, a \in InjectSources : LoopOn(Packet(a, f))
    /\ UNCHANGED <<phaser_pc, ctrl_vars, air_cmd>>

----------------------------------------------------------------------------
(* Controller actions.                                                      *)

\* a send that does not wait for the round in progress to end
SendCommand_without_waiting(cmd, button) ==
    /\ current_command' = cmd
    /\ air_reply' = NoPacket
    /\ UNCHANGED <<phaser_vars, ctrl_current_direction, last_rev_power,
                   last_reply_buffer>>
    /\ \/ /\ air_cmd' = Packet(CTRL_MY_ADDRESS, auth_packet(cmd))
          /\ ctrl_pc' = [at |-> "recv", button |-> button]
          /\ UNCHANGED <<display_msg, last_button_pressed>>
          /\ ev' = CtrlEvent("send", auth_packet(cmd))
       \/ /\ air_cmd' \in {air_cmd, Packet(CTRL_MY_ADDRESS, auth_packet(cmd))}
          /\ display_msg' = display_message("TX FAIL")
          /\ ctrl_pc' = Idle
          /\ last_button_pressed' = IF button >= 0 THEN button ELSE last_button_pressed
          /\ ev' = CtrlEvent("send_failed", auth_packet(cmd))

\* a send that goes on to recvfromAck although sendtoWait failed
SendCommand_receives_after_failure(cmd, button) ==
    /\ ctrl_pc.at = "idle"
    /\ current_command' = cmd
    /\ air_reply' = NoPacket
    /\ UNCHANGED <<phaser_vars, ctrl_current_direction, last_rev_power,
                   last_reply_buffer>>
    /\ \/ /\ air_cmd' = Packet(CTRL_MY_ADDRESS, auth_packet(cmd))
          /\ ctrl_pc' = [at |-> "recv", button |-> button]
          /\ UNCHANGED <<display_msg, last_button_pressed>>
          /\ ev' = CtrlEvent("send", auth_packet(cmd))
       \/ /\ air_cmd' \in {air_cmd, Packet(CTRL_MY_ADDRESS, auth_packet(cmd))}
          /\ display_msg' = display_message("TX FAIL")
          /\ ctrl_pc' = [at |-> "recv", button |-> button]
          /\ UNCHANGED last_button_pressed
          /\ ev' = CtrlEvent("send_failed", auth_packet(cmd))

\* send_and_process_command up to the return of sendtoWait
SendCommand(cmd, button) ==
    /\ ctrl_pc.at = "idle"
    /\ current_command' = cmd
    /\ air_reply' = NoPacket
    /\ UNCHANGED <<phaser_vars, ctrl_current_direction, last_rev_power,
                   last_reply_buffer>>
    /\ \/ /\ air_cmd' = Packet(CTRL_MY_ADDRESS, auth_packet(cmd))
          /\ ctrl_pc' = [at |-> "recv", button |-> button]
          /\ UNCHANGED <<display_msg, last_button_pressed>>
          /\ ev' = CtrlEvent("send", auth_packet(cmd))
       \/ /\ air_cmd' \in {air_cmd, Packet(CTRL_MY_ADDRESS, auth_packet(cmd))}
          /\ display_msg' = display_message("TX FAIL")
          /\ ctrl_pc' = Idle
          /\ last_button_pressed' = IF button >= 0 THEN button ELSE last_button_pressed
          /\ ev' = CtrlEvent("send_failed", auth_packet(cmd))

\* a receive step whose timeout branch forgets the last readings
ReceiveReply_timeout_forgets ==
    /\ ctrl_pc.at = "recv"
    /\ ctrl_pc' = Idle
    /\ air_reply' = NoPacket
    /\ last_button_pressed' =
           IF ctrl_pc.button >= 0 THEN ctrl_pc.button ELSE last_button_pressed
    /\ UNCHANGED <<phaser_vars, current_command, serial_token, air_cmd>>
    /\ IF air_reply.none
       THEN /\ display_msg' = display_message("TIMEOUT")
            /\ ctrl_current_direction' = DIR_N
            /\ last_rev_power' = <<45, 45>>
            /\ last_reply_buffer' = <<>>
            /\ ev' = CtrlEvent("timeout", <<>>)
       ELSE /\ SetCtrl(process_reply(CtrlState, air_reply.data))
            /\ ev' = CtrlEvent("reply", air_reply.data)

\* send_and_process_command from recvfromAck on, then the caller's tail
ReceiveReply ==
    /\ ctrl_pc.at = "recv"
    /\ ctrl_pc' = Idle
    /\ air_reply' = NoPacket
    /\ last_button_pressed' =
           IF ctrl_pc.button >= 0 THEN ctrl_pc.button ELSE last_button_pressed
    /\ UNCHANGED <<phaser_vars, current_command, serial_token, air_cmd>>
    /\ IF air_reply.none
       THEN /\ display_msg' = display_message("TIMEOUT")
            /\ UNCHANGED <<ctrl_current_direction, last_rev_power, last_reply_buffer>>
            /\ ev' = CtrlEvent("timeout", <<>>)
       ELSE /\ SetCtrl(process_reply(CtrlState, air_reply.data))
            /\ ev' = CtrlEvent("reply", air_reply.data)

\* the answer to the packet sent comes back in time: a frame of ReplyInputs
Respond ==
    /\ ctrl_pc.at = "recv"
    /\ ~air_cmd.none
    /\ air_cmd' = NoPacket
    /\ \E r \in ReplyInputs : air_reply' = Packet(MY_ADDRESS, r)
    /\ UNCHANGED <<phaser_vars, ctrl_vars, ev>>

\* a handler entered for button that does nothing: no command, no change
IgnoreButton(op, button) ==
    /\ ctrl_pc.at = "idle"
    /\ ev' = [button |-> button] @@ CtrlEvent(op, <<>>)
    /\ UNCHANGED <<phaser_vars, ctrl_current_direction, last_button_pressed,
                   last_rev_power, last_reply_buffer, display_msg, ctrl_pc,
                   current_command, air_cmd, air_reply>>

\* handle_button_press without the test against last_button_pressed
HandleButtonPress_no_suppression(button) ==
    IF button < 0 \/ button >= NUM_DIRECTIONS
    THEN IgnoreButton("ignored", button)
    ELSE SendCommand(build_direction_command(button), button)

\* void handle_button_press(int button), up to the return of sendtoWait
HandleButtonPress(button) ==
    IF button < 0 \/ button >= NUM_DIRECTIONS \/ button = last_button_pressed
    THEN IgnoreButton("ignored", button)
    ELSE SendCommand(build_direction_command(button), button)

\* handle_button_press for one of the given buttons, when a command is sent
ButtonPress(buttons) ==
    \E button \in buttons :
        /\ button # last_button_pressed
        /\ serial_token' = <<>>
        /\ HandleButtonPress(button)

\* handle_button_press for any of the eight direction buttons
handle_button_press == ButtonPress(Directions)

\* void handle_ptt_press(void)
handle_ptt_press ==
    /\ serial_token' = <<>>
    /\ SendCommand(build_ptt_command, 0 - 1)

\* loop() finds one of the panel's buttons pressed, the last one pressed
\* included
PanelButton ==
    \E button \in PanelButtons :
        /\ serial_token' = <<>>
        /\ HandleButtonPress(button)

\* tolower() of a byte
ToLower(c) == IF c \in 65 .. 90 THEN c + 32 ELSE c

\* strcasecmp(a, b) == 0
strcasecmp_equal(a, b) ==
    /\ Len(a) = Len(b)
    /\ \A i \in 1 .. Len(a) : ToLower(a[i]) = ToLower(b[i])

RECURSIVE AtoiDigits(_, _, _)
\* the digits of s from index i (from 1) on, up to the first byte that is no
\* digit, read as a decimal number after acc
AtoiDigits(s, i, acc) ==
    IF i > Len(s) \/ s[i] \notin 48 .. 57 THEN acc
    ELSE AtoiDigits(s, i + 1, 10 * acc + (s[i] - 48))

RECURSIVE SkipSpace(_, _)
\* index of the first byte of s from i on that isspace() rejects
SkipSpace(s, i) ==
    IF i <= Len(s) /\ s[i] \in {32, 9, 10, 11, 12, 13}
    THEN SkipSpace(s, i + 1)
    ELSE i

\* int atoi(const char*): white space, an optional sign, then digits
atoi(s) ==
    LET i == SkipSpace(s, 1)
    IN  IF i <= Len(s) /\ s[i] = 45 THEN 0 - AtoiDigits(s, i + 1, 0)
        ELSE IF i <= Len(s) /\ s[i] = 43 THEN AtoiDigits(s, i + 1, 0)
        ELSE AtoiDigits(s, i, 0)

\* what serial_buffer holds of a token: its first sizeof(serial_buffer) - 1
\* bytes
SerialBuffer(token) == SubSeq(token, 1, Min(SERIAL_BUFFER_SIZE - 1, Len(token)))

\* the direction handle_serial_input gives a token: the first name it matches,
\* else the switch on atoi, else -1
serial_direction(token) ==
    LET serial_buffer == SerialBuffer(token)
        named == {i \in Directions :
                     strcasecmp_equal(serial_buffer, CTRL_DIRECTION_NAMES[i + 1])}
        angle == atoi(serial_buffer)
    IN  IF named # {}
        THEN CHOOSE i \in named : \A j \in named : i <= j
        ELSE CASE angle = 0 \/ angle = 360 -> DIR_N
               [] angle = 45 -> DIR_NE
               [] angle = 90 -> DIR_E
               [] angle = 135 -> DIR_SE
               [] angle = 180 -> DIR_S
               [] angle = 225 -> DIR_SW
               [] angle = 270 -> DIR_W
               [] angle = 315 -> DIR_NW
               [] OTHER -> 0 - 1

\* void handle_serial_input(void) once white space has ended a token of
\* SerialTokens
handle_serial_input ==
    \E token \in SerialTokens :
        LET direction == serial_direction(token)
        IN  /\ serial_token' = token
            /\ IF direction >= 0
               THEN HandleButtonPress(direction)
               ELSE IgnoreButton("unknown_direction", direction)

----------------------------------------------------------------------------
(* The codecs one call at a time, from the state after setup().             *)

\* process_command on the SetDirection frame of an azimuth 0..359
ResolveAzimuth ==
    /\ ev.op = "init"
    /\ ProcessCommandOf(AzimuthFrames, {Sample(0)})

\* process_command on "AI1": handle_position_query under a reading of
\* TelemetryInputs
ReportPosition ==
    /\ ev.op = "init"
    /\ ProcessCommandOf({<<65, 73, 49>>}, TelemetryInputs)

\* process_command on 'V': handle_power_query under an ADC reading 0..1023
ReportPower ==
    /\ ev.op = "init"
    /\ ProcessCommandOf({<<CMD_TYPE_POWER>>}, AdcInputs)

\* p with bit k of its byte i (from 1) inverted
FlipPayloadBit(p, i, k) == [p EXCEPT ![i] = XorBits(p[i], 2 ^ k, 8)]

\* the controller computes the tag of a payload and the phaser's copy of
\* compute_auth computes it again
ComputeAuth ==
    /\ ev.op = "init"
    /\ \E p \in AuthPayloads :
           ev' = [op |-> "compute_auth", frame |-> p,
                  ctrl_tag |-> ctrl_compute_auth(p), tag |-> compute_auth(p)]
    /\ UNCHANGED <<phaser_vars, ctrl_vars, air_cmd, air_reply>>

\* the controller's tag travels with a payload of which one bit is inverted on
\* the way; the tag is computed again over what arrived
CorruptPayload ==
    /\ ev.op = "init"
    /\ \E p \in AuthPayloads, i \in 1 .. MAX_COMMAND_LEN, k \in 0 .. 7 :
           /\ i <= Len(p)
           /\ ev' = [op |-> "corrupt_payload", frame |-> p,
                     received |-> FlipPayloadBit(p, i, k),
                     carried |-> ctrl_compute_auth(p),
                     recomputed |-> compute_auth(FlipPayloadBit(p, i, k))]
    /\ UNCHANGED <<phaser_vars, ctrl_vars, air_cmd, air_reply>>

\* the payload arrives intact, one bit of the 16-bit tag is inverted on the way
CorruptTag ==
    /\ ev.op = "init"
    /\ \E p \in AuthPayloads, j \in 0 .. 15 :
           ev' = [op |-> "corrupt_tag", frame |-> p, received |-> p,
                  carried |-> XorBits(ctrl_compute_auth(p), 2 ^ j, 16),
                  recomputed |-> compute_auth(p)]
    /\ UNCHANGED <<phaser_vars, ctrl_vars, air_cmd, air_reply>>

----------------------------------------------------------------------------
(* Specifications.                                                          *)

Next ==
    \/ handle_button_press
    \/ handle_ptt_press
    \/ ReceiveReply
    \/ loop

\* the two nodes and the radio between them
Spec == Init /\ [][Next]_vars

NextUnit == ProcessCommand

NextRx == Receive

\* the phaser's receive loop on every packet
SpecRx == Init /\ [][NextRx]_vars

\* the same from every outcome of setup()
SpecStartup == InitStartup /\ [][NextRx]_vars

\* the phaser's command processor on every command buffer
SpecUnit == Init /\ [][NextUnit]_vars

\* the same, for the Comtek build
SpecUnitComtek == InitComtek /\ [][NextUnit]_vars

\* both nodes after setup(), the phaser's first sensor reading fixed
InitCtrl == Init /\ bus_voltage_mv = Sample(0).bus_mv

NextCtrl ==
    \/ ButtonPress(ButtonInputs)
    \/ handle_ptt_press
    \/ Respond
    \/ ReceiveReply

NextFn ==
    \/ ResolveAzimuth
    \/ ReportPosition
    \/ ReportPower
    \/ ComputeAuth
    \/ CorruptPayload
    \/ CorruptTag

\* one call of a codec on each of its inputs
SpecFn == InitCtrl /\ [][NextFn]_vars

\* the controller against a far end that answers with any frame or not at all
SpecCtrl == InitCtrl /\ [][NextCtrl]_vars

NextPanel ==
    \/ PanelButton
    \/ handle_serial_input
    \/ Respond
    \/ ReceiveReply

\* the controller's panel and serial line, every press and token handled
SpecPanel == InitCtrl /\ [][NextPanel]_vars

----------------------------------------------------------------------------
(* Properties.                                                              *)

\* reply is a Position reply whose azimuth field is that of direction d
ReportsDirection(reply, d) ==
    /\ Len(reply) >= 4
    /\ reply[1] = REPLY_PREFIX_POS
    /\ SubSeq(reply, 2, 4) = DIRECTION_ANGLES[d + 1]

\* the last step ran process_command on frame f
Processed(f) == ev.op = "process_command" /\ ev.frame = f

\* the 7-byte SetDirection frame for direction d with last byte t
SetDirectionFrame(d, t) == <<65, 80, 49>> \o DIRECTION_ANGLES[d + 1] \o <<t>>

\* current, target and the relay outputs are what they were before the step
PhaserUnchanged ==
    /\ current_direction = ev.pre_current
    /\ target_direction = ev.pre_target
    /\ relays = ev.pre_relays

\* C1: after process_command has handled the SetDirection frame of direction d
\* ending in carriage return, current is d, the relays show the row of d,
\* target is what it was, and a Position reply reporting d has been built.
C1_SetDirectionExecuteNow ==
    \A d \in Directions :
        Processed(SetDirectionFrame(d, CMD_TERMINATOR_CR)) =>
            /\ current_direction = d
            /\ relays = RELAY_POSITIONS[d + 1]
            /\ target_direction = ev.pre_target
            /\ ev.built = "position"
            /\ ReportsDirection(reply_buffer, d)

\* C1 witness: "AP1225\r" handled with current = NE and target = E before
C1_Witness ==
    /\ Processed(SetDirectionFrame(DIR_SW, CMD_TERMINATOR_CR))
    /\ ev.pre_current = DIR_NE
    /\ ev.pre_target = DIR_E
    /\ current_direction = DIR_SW
    /\ target_direction = DIR_E

\* C2: after process_command has handled a 3-byte frame whose second byte is
\* 'M', current is the target staged before, the relays show its row, target
\* is unchanged and a Position reply reporting it has been built.
C2_QueryPositionApplyTarget ==
    (/\ ev.op = "process_command"
     /\ Len(ev.frame) = 3
     /\ ev.frame[2] = CMD_TYPE_INFO_M) =>
        /\ current_direction = ev.pre_target
        /\ relays = RELAY_POSITIONS[ev.pre_target + 1]
        /\ target_direction = ev.pre_target
        /\ ev.built = "position"
        /\ ReportsDirection(reply_buffer, ev.pre_target)

\* C2 witness (Scenario D): current = N, target = SW, "AM1" handled
C2_Witness ==
    /\ Processed(<<65, 77, 49>>)
    /\ ev.pre_current = DIR_N
    /\ ev.pre_target = DIR_SW
    /\ current_direction = DIR_SW
    /\ relays = RELAY_POSITIONS[DIR_SW + 1]

\* C3: after process_command has handled the SetDirection frame of direction d
\* ending in ';', target is d, current and the relays are what they were, and
\* the Position reply built reports the unchanged current.
C3_SetDirectionStageOnly ==
    \A d \in Directions :
        Processed(SetDirectionFrame(d, CMD_TERMINATOR_SEMI)) =>
            /\ target_direction = d
            /\ current_direction = ev.pre_current
            /\ relays = ev.pre_relays
            /\ ev.built = "position"
            /\ ReportsDirection(reply_buffer, ev.pre_current)

\* C3 witness: "AP1225;" handled with current = NE and target = N before
C3_Witness ==
    /\ Processed(SetDirectionFrame(DIR_SW, CMD_TERMINATOR_SEMI))
    /\ ev.pre_current = DIR_NE
    /\ ev.pre_target = DIR_N
    /\ target_direction = DIR_SW
    /\ ReportsDirection(reply_buffer, DIR_NE)

\* C4: after process_command has handled a 3-byte frame whose second byte is
\* 'I', current, target and the relays are unchanged and a Position reply
\* reporting current has been built.
C4_QueryPositionReport ==
    (/\ ev.op = "process_command"
     /\ Len(ev.frame) = 3
     /\ ev.frame[2] = CMD_TYPE_INFO_I) =>
        /\ PhaserUnchanged
        /\ ev.built = "position"
        /\ ReportsDirection(reply_buffer, current_direction)

\* C4 witness: "AI1" handled with current = E and target = W staged
C4_Witness ==
    /\ Processed(<<65, 73, 49>>)
    /\ ev.pre_current = DIR_E
    /\ ev.pre_target = DIR_W
    /\ ReportsDirection(reply_buffer, DIR_E)

\* C5: after process_command has handled the 1-byte frame 'V', the reply built
\* is a Power reply (first byte 'V') and current, target and the relays are
\* unchanged.
C5_QueryPower ==
    Processed(<<CMD_TYPE_POWER>>) =>
        /\ PhaserUnchanged
        /\ ev.built = "power"
        /\ Len(reply_buffer) >= 1
        /\ reply_buffer[1] = REPLY_PREFIX_PWR

\* C5 witness: 'V' handled with current = S, target = NW and a Position reply
\* left in the buffer by the command before
C5_Witness ==
    /\ Processed(<<CMD_TYPE_POWER>>)
    /\ ev.pre_current = DIR_S
    /\ ev.pre_target = DIR_NW
    /\ ReportsDirection(ev.pre_reply, DIR_S)
    /\ reply_buffer[1] = REPLY_PREFIX_PWR

Looped == ev.op = "loop" /\ ev.from = CTRL_ADDRESS

\* the step transmitted a reply frame carrying bytes (a zero-length datagram
\* is not counted)
Transmitted == ~ev.sent.none /\ Len(ev.sent.data) > 0

\* f carries a trailing 2-byte tag, which is not the tag of the bytes before it
BadTag(f) ==
    /\ Len(f) > AUTH_LEN
    /\ compute_auth(SubSeq(f, 1, Len(f) - AUTH_LEN))
           # f[Len(f) - 1] * 256 + f[Len(f)]

\* f decodes to a command: 'V' or ';', a 3-byte frame with selector 'I' or
\* 'M', or a 7-byte frame with prefix "AP1"
Decodes(f) ==
    \/ Len(f) = 1 /\ f[1] \in {CMD_TYPE_POWER, 59}
    \/ Len(f) = 3 /\ f[2] \in {CMD_TYPE_INFO_I, CMD_TYPE_INFO_M}
    \/ Len(f) = 7 /\ SubSeq(f, 1, 3) = <<CMD_PREFIX_A, CMD_PREFIX_P, CMD_PREFIX_1>>

\* C7: a received frame whose trailing 2-byte tag is not the tag of the bytes
\* before it causes no transition of the phaser and no reply.
C7_BadTagDropped ==
    (Looped /\ BadTag(ev.frame)) => (PhaserUnchanged /\ ~Transmitted)

\* C8: a received frame that does not decode to a command causes no
\* transition of the phaser and no reply.
C8_UndecodableDropped ==
    (Looped /\ ~Decodes(ev.frame)) => (PhaserUnchanged /\ ~Transmitted)

\* C9: once the packet the controller builds for direction button d (command
\* plus tag) has gone through the phaser's loop(), the phaser's current is d
\* and its relays show the row of d.
C9_DirectionCommandApplied ==
    \A d \in Directions :
        (Looped /\ ev.frame = auth_packet(build_direction_command(d))) =>
            /\ current_direction = d
            /\ relays = RELAY_POSITIONS[d + 1]

\* C10: the phaser answers the PTT handler's packet ('V' plus tag) with a
\* Power reply of 'V' and 6 characters, and the controller stores the 6
\* characters of the reply it receives as last_rev_power.
C10_PowerQueryRoundTrip ==
    /\ (Looped /\ ev.frame = auth_packet(build_ptt_command)) =>
           /\ ev.built = "power"
           /\ Len(ev.sent.data) = 7
           /\ ev.sent.data[1] = REPLY_PREFIX_PWR
    /\ (ev.op = "reply" /\ current_command = build_ptt_command) =>
           /\ Len(ev.frame) = 7
           /\ ev.frame[1] = REPLY_PREFIX_PWR
           /\ last_rev_power = SubSeq(ev.frame, 2, 7)

\* the number of directions the documentation gives each antenna type: 8 for
\* RemoteQTH, 4 for Comtek
ProfileDirections(config) == IF config = ANTENNA_COMTEK THEN 4 ELSE NUM_DIRECTIONS

\* C15: in every reachable phaser state, whatever frames have been processed,
\* current and target are direction indices in [0, N), N being the direction
\* count of the build's antenna type (8 for RemoteQTH, 4 for Comtek).
C15_DirectionValidity ==
    /\ current_direction \in 0 .. (ProfileDirections(antenna_config) - 1)
    /\ target_direction \in 0 .. (ProfileDirections(antenna_config) - 1)

\* C11: once the controller has decoded the Position reply the phaser builds
\* for current = d, the controller's current_direction is d, for every
\* direction d.
C11_PositionRoundTrip ==
    \A d \in Directions :
        (ev.op = "reply" /\ ev.frame = PositionReplyOf(d)) =>
            ctrl_current_direction = d

\* C12: after a command round that ended in a send failure or in a timeout,
\* and after a send that is still waiting, the controller's current_direction,
\* last reply buffer and last reverse-power reading are what they were before
\* the step; only a received reply changes them.
C12_RetainedOnFailure ==
    (ev.op \in {"send", "send_failed", "timeout"}) =>
        /\ ctrl_current_direction = ev.pre_ctrl_direction
        /\ last_reply_buffer = ev.pre_last_reply
        /\ last_rev_power = ev.pre_rev_power

\* C12 witness: a round times out while the controller holds a direction, a
\* Position reply and a power reading received in earlier rounds
C12_Witness ==
    /\ ev.op = "timeout"
    /\ ctrl_current_direction = 3
    /\ last_reply_buffer = PositionReplyOf(DIR_NW)
    /\ last_rev_power = SubSeq(PowerReply, 2, 7)

\* C20: a received Power reply shorter than 7 bytes leaves last_rev_power as it
\* was; a received Position reply of one byte, or one whose second byte is not
\* a digit '0'..'7', leaves the controller's current_direction as it was.
C20_ShortReplies ==
    (ev.op = "reply" /\ Len(ev.frame) >= 1) =>
        /\ (ev.frame[1] = 86 /\ Len(ev.frame) < 7) =>
               last_rev_power = ev.pre_rev_power
        /\ (ev.frame[1] = 59
            /\ (Len(ev.frame) < 2 \/ ev.frame[2] - 48 \notin Directions)) =>
               ctrl_current_direction = ev.pre_ctrl_direction

\* C20 witness: the 6-byte head of a Power reply arrives while the controller
\* holds the reading of an earlier full one and direction 3
C20_Witness ==
    /\ ev.op = "reply"
    /\ ev.frame = SubSeq(PowerReply, 1, 6)
    /\ ev.pre_rev_power = SubSeq(PowerReply, 2, 7)
    /\ last_rev_power = SubSeq(PowerReply, 2, 7)
    /\ ctrl_current_direction = 3

\* the index of the sector of width 360/n centred on k * (360/n) that holds
\* azimuth a, a midpoint going to the higher index, 360 wrapping to 0
Quantize(a, n) == (((2 * a * n) + 360) \div 720) % n

\* the azimuth written in bytes 3..5 of a 7-byte frame
AzimuthOf(f) == (100 * (f[4] - 48)) + (10 * (f[5] - 48)) + (f[6] - 48)

\* C13: after process_command has handled "AP1" + the three digits of an
\* azimuth a in 0..359 + carriage return, current is the index of the 45-degree
\* sector centred on a multiple of 45 that holds a (010 gives N, 050 NE, 100
\* E, 350 N).
C13_AzimuthQuantization ==
    (ev.op = "process_command" /\ ev.frame \in AzimuthFrames) =>
        current_direction = Quantize(AzimuthOf(ev.frame), NUM_DIRECTIONS)

\* C14: after process_command has handled the 7-byte frame the controller
\* builds for direction d, the phaser's current is d and its relays show the
\* row of d (the frame was executed at once), target is what it was and the
\* reply reports d.
C14_SetDirectionRoundTrip ==
    \A d \in Directions :
        Processed(build_direction_command(d)) =>
            /\ Len(ev.frame) = 7
            /\ current_direction = d
            /\ relays = RelayTable(antenna_config)[d + 1]
            /\ target_direction = ev.pre_target
            /\ ReportsDirection(reply_buffer, d)

\* C14 witness: the controller's frame for W handled while current is NE and
\* S is staged
C14_Witness ==
    /\ Processed(build_direction_command(DIR_W))
    /\ ev.pre_current = DIR_NE
    /\ ev.pre_target = DIR_S
    /\ current_direction = DIR_W
    /\ target_direction = DIR_S

\* C16: the tag recomputed over an intact payload equals the tag the sender
\* computed; after one bit of the payload, or one bit of the tag, has been
\* inverted, the tag recomputed over the received payload differs from the
\* tag carried.
C16_SingleBitCorruption ==
    /\ (ev.op = "compute_auth") => (compute_auth(ev.frame) = ev.ctrl_tag)
    /\ (ev.op \in {"corrupt_payload", "corrupt_tag"}) =>
           (ev.recomputed # ev.carried)

\* C16 witness: the top bit of the first byte of the 7-byte NW command is
\* inverted
C16_Witness ==
    /\ ev.op = "corrupt_payload"
    /\ ev.frame = build_direction_command(DIR_NW)
    /\ ev.received = <<193, 80, 49, 51, 49, 53, 13>>

\* n as 16 bits, most significant first
Bits16(n) == [k \in 1 .. 16 |-> (n \div (2 ^ (16 - k))) % 2]

RECURSIVE BitsValue(_)
\* the number a sequence of bits, most significant first, stands for
BitsValue(b) ==
    IF Len(b) = 0 THEN 0 ELSE (2 * BitsValue(SubSeq(b, 1, Len(b) - 1))) + b[Len(b)]

\* b rotated left by r places
RotateBitsLeft(b, r) == [k \in 1 .. Len(b) |-> b[((k - 1 + r) % Len(b)) + 1]]

\* bit by bit exclusive or
XorBitSeq(a, b) == [k \in 1 .. Len(a) |-> IF a[k] = b[k] THEN 0 ELSE 1]

RECURSIVE ReferenceTag(_, _)
\* the tag after the first n bytes of payload: 0xB33F for none; for byte b at
\* index i, rotate left by 5, exclusive or with key byte i mod 16, add b
\* modulo 2^16
ReferenceTag(payload, n) ==
    IF n = 0 THEN 11 * 4096 + 3 * 256 + 3 * 16 + 15
    ELSE LET key == <<78, 50, 82, 68, 45, 65, 78, 84, 69, 78, 78, 65, 45, 75, 69, 89>>
             rot == RotateBitsLeft(Bits16(ReferenceTag(payload, n - 1)), 5)
             mix == BitsValue(XorBitSeq(rot, Bits16(key[((n - 1) % 16) + 1])))
         IN  (mix + payload[n]) % 65536

\* C17: the tag of the controller's compute_auth and the tag of the phaser's
\* compute_auth both equal the reference tag of the payload: start 0xB33F,
\* per byte rotate left by 5, exclusive or with the key byte, add the byte
\* modulo 2^16.
C17_TagComputation ==
    (ev.op = "compute_auth") =>
        /\ ev.ctrl_tag = ReferenceTag(ev.frame, Len(ev.frame))
        /\ ev.tag = ReferenceTag(ev.frame, Len(ev.frame))

\* C17 witness: the tag of "AP1315\r", computed by both copies
C17_Witness ==
    /\ ev.op = "compute_auth"
    /\ ev.frame = build_direction_command(DIR_NW)
    /\ ev.tag = ev.ctrl_tag

\* C18: the Position reply built under any sensor reading is at most 24 bytes
\* long and has 'r', 'v', 'i', 'b' at offsets 4, 9, 15, 19.
C18_PositionFraming ==
    (Processed(<<65, 73, 49>>) /\ ev.built = "position") =>
        /\ Len(reply_buffer) <= 24
        /\ Len(reply_buffer) >= 20
        /\ reply_buffer[5] = 114
        /\ reply_buffer[10] = 118
        /\ reply_buffer[16] = 105
        /\ reply_buffer[20] = 98

UndecodableReply(f) == Len(f) = 0 \/ f[1] \notin {59, 86}

\* current_direction, the last reply and the last power reading of the
\* controller are what they were before the step
CtrlRetained ==
    /\ ctrl_current_direction = ev.pre_ctrl_direction
    /\ last_reply_buffer = ev.pre_last_reply
    /\ last_rev_power = ev.pre_rev_power

\* C21: after the controller has received a reply that does not decode, the
\* screen shows the status of a missing reply ("TIMEOUT") and the retained
\* state is unchanged.
C21_UndecodableReplyIsNoAck ==
    (ev.op = "reply" /\ UndecodableReply(ev.frame)) =>
        /\ display_msg = display_message("TIMEOUT")
        /\ CtrlRetained

\* C22: every packet is handed to the radio while no round is in progress:
\* the step that sends starts from the idle controller, after setup() or after
\* the round before has ended in a processed reply, a timeout or a send
\* failure; and a round in progress is the round of the command sent last.
C22_OneOutstandingRequest ==
    /\ (ev.op \in {"send", "send_failed"}) => (ev.pre_pc = "idle")
    /\ (ctrl_pc.at = "recv") =>
           /\ ev.op = "send"
           /\ ev.frame = auth_packet(current_command)
    /\ (ev.op \in {"reply", "timeout"}) => (ev.pre_pc = "recv")

\* C22 witness: a second command is out, sent after a round that timed out
C22_Witness ==
    /\ ev.op = "send"
    /\ ctrl_pc.at = "recv"
    /\ display_msg = display_message("TIMEOUT")
    /\ current_command = build_ptt_command

\* C28: the packet of every send is the command (1 or 7 bytes), then the high
\* byte and the low byte of the tag of the command bytes alone; its length is
\* the command's plus 2.
C28_TagPlacement ==
    (ev.op \in {"send", "send_failed"}) =>
        LET n == Len(current_command)
        IN  /\ n \in {1, 7}
            /\ Len(ev.frame) = n + 2
            /\ SubSeq(ev.frame, 1, n) = current_command
            /\ ev.frame[n + 1] = ReferenceTag(current_command, n) \div 256
            /\ ev.frame[n + 2] = ReferenceTag(current_command, n) % 256
            /\ (ev.op = "send" /\ ~air_cmd.none) =>
                   (air_cmd = Packet(CTRL_MY_ADDRESS, ev.frame))

\* C28 witness: the packet of the NW button, "AP1315\r" and two tag bytes
\* that differ
C28_Witness ==
    /\ ev.op = "send"
    /\ current_command = build_direction_command(DIR_NW)
    /\ Len(air_cmd.data) = 9
    /\ air_cmd.data[8] # air_cmd.data[9]

\* C29: a round ends in one of three ways. After a failed send the screen
\* shows "TX FAIL", no receive follows and nothing retained has changed; after
\* a send without reply the screen shows "TIMEOUT" and nothing retained has
\* changed; after a reply the retained state is what process_reply makes of
\* it. In each case the controller is idle again: the command is not sent a
\* second time.
C29_TransportOutcomes ==
    /\ (ev.op = "send_failed") =>
           /\ display_msg = display_message("TX FAIL")
           /\ ctrl_pc = Idle
           /\ air_reply.none
           /\ CtrlRetained
    /\ (ev.op = "timeout") =>
           /\ display_msg = display_message("TIMEOUT")
           /\ ctrl_pc = Idle
           /\ CtrlRetained
    /\ (ev.op = "reply") =>
           /\ ctrl_pc = Idle
           /\ ~UndecodableReply(ev.frame) => display_msg.screen = "telemetry"
           /\ (ev.frame # <<>> /\ ev.frame[1] = 59) => last_reply_buffer = ev.frame
           /\ (Len(ev.frame) >= 7 /\ ev.frame[1] = 86) =>
                  last_rev_power = SubSeq(ev.frame, 2, 7)
    /\ (ctrl_pc.at = "idle") => (ev.op \in {"init", "send_failed", "timeout", "reply"})

\* C29 witness: a send fails after a round in which a Position reply came in
C29_Witness ==
    /\ ev.op = "send_failed"
    /\ last_reply_buffer = PositionReplyOf(DIR_NW)
    /\ display_msg = display_message("TX FAIL")

\* C23: every reply frame the phaser's loop() transmits was built while the
\* command just received was processed; what an earlier command left in the
\* reply buffer is never sent.
C23_NoCarryOver ==
    (Looped /\ Transmitted) => (ev.built # "none")

\* f is a 7-byte frame with prefix "AP1"
SetDirectionPrefix(f) ==
    /\ Len(f) = 7
    /\ SubSeq(f, 1, 3) = <<CMD_PREFIX_A, CMD_PREFIX_P, CMD_PREFIX_1>>

\* the three azimuth bytes of f are ASCII digits
AllDigits(f) == \A i \in 4 .. 6 : f[i] \in 48 .. 57

\* C24: after process_command has handled a 7-byte "AP1" frame one of whose
\* azimuth bytes is no digit, current, target and the relays are what they
\* were.
C24_BadDigitsRejected ==
    (/\ ev.op = "process_command"
     /\ SetDirectionPrefix(ev.frame)
     /\ ~AllDigits(ev.frame)) => PhaserUnchanged

\* C25: after process_command has handled a 3-byte frame whose first byte is
\* not 'A' or whose third byte is not '1', current, target and the relays are
\* what they were and no reply has been built.
C25_QueryPositionMatching ==
    (/\ ev.op = "process_command"
     /\ Len(ev.frame) = 3
     /\ (ev.frame[1] # CMD_PREFIX_A \/ ev.frame[3] # CMD_PREFIX_1)) =>
        /\ PhaserUnchanged
        /\ ev.built = "none"

\* f is an executed or staged SetDirection frame whose azimuth is three
\* digits but none of 000, 045, 090, 135, 180, 225, 270, 315
NonCanonical(f) ==
    /\ SetDirectionPrefix(f)
    /\ AllDigits(f)
    /\ SubSeq(f, 4, 6) \notin {DIRECTION_ANGLES[d + 1] : d \in Directions}

MiddleDigitDirection ==
    [g \in (0 .. 9) \ {5} |->
        CASE g = 0 -> DIR_N [] g = 1 -> DIR_NW [] g = 2 -> DIR_SW
          [] g = 3 -> DIR_SE [] g = 4 -> DIR_NE [] g = 6 -> DIR_N
          [] g = 7 -> DIR_W [] g = 8 -> DIR_S [] g = 9 -> DIR_E]

\* the direction used for frame f from a state whose current was c
DirectionUsed(f, c) ==
    IF f[5] - 48 = 5 THEN c ELSE MiddleDigitDirection[f[5] - 48]

C27_InitialState ==
    (ev.op = "init") =>
        /\ current_direction = DIR_N
        /\ target_direction = DIR_N
        /\ relays = RelayTable(antenna_config)[DIR_N + 1]
        /\ ctrl_current_direction = DIR_N

\* C27 witness: the state after setup(), no packet sent or received yet
C27_Witness ==
    /\ ev.op = "init"
    /\ relays = <<0, 0, 0, 0, 0, 0>>
    /\ reply_buffer = <<>>
    /\ air_cmd.none

\* C30: in the Comtek build, after process_command has handled the executed
\* SetDirection frame of 045, 135, 225 or 315, the relays and the position in
\* the reply are those of 000, 090, 180 or 270; and the relay rows of 000,
\* 090, 180 and 270 differ from each other.
C30_ComtekMapping ==
    (antenna_config = ANTENNA_COMTEK) =>
        /\ \A q \in {DIR_N, DIR_E, DIR_S, DIR_W} :
               Processed(SetDirectionFrame(q + 1, CMD_TERMINATOR_CR)) =>
                   /\ relays = RELAY_POSITIONS_COMTEK[q + 1]
                   /\ ReportsDirection(reply_buffer, q)
        /\ \A q, r \in {DIR_N, DIR_E, DIR_S, DIR_W} :
               (q # r) => (RELAY_POSITIONS_COMTEK[q + 1] # RELAY_POSITIONS_COMTEK[r + 1])

\* text is the name of a direction, in letters of either case
IsDirectionName(text) ==
    \E i \in Directions : strcasecmp_equal(text, CTRL_DIRECTION_NAMES[i + 1])

\* text is a decimal numeral of one of the angles the serial line takes
IsSupportedAngle(text) ==
    /\ Len(text) > 0
    /\ \A i \in 1 .. Len(text) : text[i] \in 48 .. 57
    /\ AtoiDigits(text, 1, 0) \in {0, 45, 90, 135, 180, 225, 270, 315, 360}

\* C31: once handle_serial_input has handled a token that is no direction
\* name and no supported angle, the step taken is the report of an unknown
\* direction: the controller is idle, no round was started and its direction,
\* last reply and last power reading are what they were.
C31_UnknownSerialInput ==
    (/\ serial_token # <<>>
     /\ ~IsDirectionName(serial_token)
     /\ ~IsSupportedAngle(serial_token)) =>
        /\ ev.op = "unknown_direction"
        /\ ctrl_pc = Idle
        /\ CtrlRetained

\* C37: a call of handle_button_press that is ignored is one for
\* last_button_pressed and leaves the controller as it was; a direction
\* command just sent is never the one of last_button_pressed; and when a round
\* for a button has ended, by reply, timeout or failed send,
\* last_button_pressed is that button.
C37_SameButtonSuppression ==
    /\ (ev.op = "ignored") =>
           /\ ev.button = last_button_pressed
           /\ ctrl_pc = Idle
           /\ CtrlRetained
    /\ (ev.op = "send" /\ Len(current_command) = 7) =>
           (current_command # build_direction_command(last_button_pressed))
    /\ (ev.op \in {"reply", "timeout", "send_failed"} /\ Len(current_command) = 7) =>
           (current_command = build_direction_command(last_button_pressed))

\* C37 witness: button S pressed again after its round ended in TIMEOUT; the
\* press is ignored and the screen still shows TIMEOUT
C37_Witness ==
    /\ ev.op = "ignored"
    /\ ev.button = DIR_S
    /\ serial_token = <<>>
    /\ last_button_pressed = DIR_S
    /\ display_msg = display_message("TIMEOUT")
    /\ current_command = build_direction_command(DIR_S)

\* C32: the phaser is never stopped by an INA3221 that fails to initialise:
\* setup() returns and the phaser is in its command loop.
C32_SensorFailureContinues ==
    phaser_pc # "halt_ina3221"

\* C33: in every reachable state of the phaser the six relay outputs are the
\* row of the relay table for current_direction.
C33_RelaysFollowCurrent ==
    /\ current_direction \in Directions
    /\ relays = RelayTable(antenna_config)[current_direction + 1]

\* C33 witness: a Stop handled while the phaser points W with E staged: the
\* relays show the W row
C33_Witness ==
    /\ Processed(<<59>>)
    /\ current_direction = DIR_W
    /\ target_direction = DIR_E
    /\ relays = RELAY_POSITIONS[DIR_W + 1]
    /\ relays # RELAY_POSITIONS[DIR_E + 1]

\* f is a SetDirection frame with three azimuth digits and a last byte other
\* than carriage return
StageFrame(f) ==
    /\ SetDirectionPrefix(f)
    /\ AllDigits(f)
    /\ f[7] # CMD_TERMINATOR_CR

\* C34: process_command leaves target as it was for every frame but a
\* SetDirection that stages (power and position queries, Stop, executed
\* SetDirection, frames it does not recognise), and "AM1" makes the staged
\* target current.
C34_StagedTargetPersists ==
    /\ (ev.op = "process_command" /\ ~StageFrame(ev.frame)) =>
           (target_direction = ev.pre_target)
    /\ Processed(<<65, 77, 49>>) =>
           (current_direction = ev.pre_target /\ target_direction = ev.pre_target)

C36_SenderFilter ==
    (ev.op = "loop" /\ ev.from # CTRL_ADDRESS) =>
        /\ PhaserUnchanged
        /\ ev.built = "none"
        /\ ev.sent.none
        /\ reply_buffer = ev.pre_reply

\* C36 witness: 'V' from address 7 has been received while the reply buffer
\* holds a Position reply, which is still there
C36_Witness ==
    /\ ev.op = "loop"
    /\ ev.from = 7
    /\ ev.frame = <<CMD_TYPE_POWER>>
    /\ Len(reply_buffer) > 0
    /\ reply_buffer[1] = REPLY_PREFIX_POS
    /\ air_reply.none

\* the direction the phaser takes from frame f when its current is c: that of
\* the middle azimuth byte if it is a digit other than 5, else c
DirectionTaken(f, c) ==
    IF f[5] \in 48 .. 57 THEN DirectionUsed(f, c) ELSE c

\* C38: after process_command has handled a 7-byte "AP1" frame, the direction
\* taken from it is current, with its relay row set and target as it was, if
\* the last byte is carriage return; for every other last byte it is target,
\* with current and the relays as they were.
C38_TerminatorDispatch ==
    (ev.op = "process_command" /\ SetDirectionPrefix(ev.frame)) =>
        LET taken == DirectionTaken(ev.frame, ev.pre_current)
        IN  IF ev.frame[7] = CMD_TERMINATOR_CR
            THEN /\ current_direction = taken
                 /\ relays = RelayTable(antenna_config)[taken + 1]
                 /\ target_direction = ev.pre_target
            ELSE /\ target_direction = taken
                 /\ current_direction = ev.pre_current
                 /\ relays = ev.pre_relays

\* C38 witness: "AP1135Z" handled while the phaser points N: SE is staged and
\* the phaser still points N
C38_Witness ==
    /\ Processed(<<65, 80, 49, 49, 51, 53, 90>>)
    /\ ev.pre_target # DIR_SE
    /\ target_direction = DIR_SE
    /\ current_direction = DIR_N
    /\ relays = RELAY_POSITIONS[DIR_N + 1]

====
